---- MODULE Spec2Model ----
(***************************************************************************)
(* A model of hangman.py: the round loop of play_hangman, the hint, the    *)
(* scoring function and the high-score file.                               *)
(*                                                                         *)
(* Strings are sequences of one-character strings, so that str.lower(),    *)
(* str.isalpha() and len() are computed and not assumed.  The score file   *)
(* is held as the value json.load would give for it: json.dump followed by *)
(* json.load is the identity on a dict of string keys and int values, the  *)
(* only thing save_score ever writes.                                      *)
(***************************************************************************)
EXTENDS Integers, Sequences, FiniteSets, TLC

VARIABLES
    pc,               \* where the process is: "loop" (line 229), "input" (line 260),
                      \* "again" (line 299), "menu" (line 326), "crashed" (an uncaught
                      \* exception); "call" and "returned" around a bare function call
    status,           \* the round: "NoRound", "InProgress", "Won", "Lost", "Aborted"
    category,         \* play_hangman: category
    difficulty,       \* play_hangman: difficulty
    word,             \* play_hangman: word
    guessed_letters,  \* play_hangman: guessed_letters
    wrong_attempts,   \* play_hangman: wrong_attempts
    max_wrong,        \* play_hangman: max_wrong
    game_over,        \* play_hangman: game_over
    hint_used,        \* play_hangman: hint_used
    echo,             \* the lines typed at the prompt since the last clear_screen(), as
                      \* the terminal shows them: none or one
    message,          \* what has been printed since the last clear_screen()
    score,            \* play_hangman: score (the argument of save_score)
    new_high,         \* what save_score returned
    scores,           \* the local `scores` of save_score / display_high_scores
    file,             \* the content of hangman_scores.json
    word_length       \* calculate_score: word_length

vars == <<pc, status, category, difficulty, word, guessed_letters, wrong_attempts,
          max_wrong, game_over, hint_used, echo, message, score, new_high, scores,
          file, word_length>>

round_vars == <<category, difficulty, word, guessed_letters, wrong_attempts, max_wrong,
                game_over, hint_used>>

-----------------------------------------------------------------------------
(* Static tables                                                           *)

Difficulties == {"easy", "medium", "hard"}

\* the table with the hint switched on for the hard level
MutDifficultyLevelsHardHint ==
    [d \in Difficulties |->
        CASE d = "easy"   -> [max_wrong |-> 8, hint |-> TRUE]
          [] d = "medium" -> [max_wrong |-> 6, hint |-> TRUE]
          [] d = "hard"   -> [max_wrong |-> 4, hint |-> TRUE]]

\* lines 45-49
difficulty_levels ==
    [d \in Difficulties |->
        CASE d = "easy"   -> [max_wrong |-> 8, hint |-> TRUE]
          [] d = "medium" -> [max_wrong |-> 6, hint |-> TRUE]
          [] d = "hard"   -> [max_wrong |-> 4, hint |-> FALSE]]

\* lines 29-42, cut down to two words of the 'fruits' list: one with five distinct
\* letters (the scenario word) and one with a repeated letter.
Mango == <<"m", "a", "n", "g", "o">>
Kiwi == <<"k", "i", "w", "i">>

word_categories == [c \in {"fruits"} |-> {Mango, Kiwi}]

-----------------------------------------------------------------------------
(* Characters and strings                                                  *)

\* the letters of the two words and five more, so that either word leaves at least
\* the eight wrong letters that the easy level allows
LowerLetters == {"m", "a", "n", "g", "o", "k", "i", "w", "x", "y", "z", "q", "j"}
UpperLetters == {"M", "K", "Z"}
\* a letter that has no case: str.isalpha() holds of it and str.lower() leaves it as
\* it is (a CJK ideograph, say); written by its code point
CaselessLetters == {"U+4E2D"}
OtherChars == {"?", "!", "7", " "}
Chars == LowerLetters \cup UpperLetters \cup OtherChars

\* str.lower() on one character
LowerChar(c) ==
    CASE c = "M" -> "m"
      [] c = "K" -> "k"
      [] c = "Z" -> "z"
      [] c = "Y" -> "y"
      [] OTHER -> c

\* str.lower(), line 260
Lower(s) == [i \in 1..Len(s) |-> LowerChar(s[i])]

\* str.isalpha(): at least one character and every character alphabetic, line 276
IsAlpha(s) ==
    /\ Len(s) >= 1
    /\ \A i \in 1..Len(s) : s[i] \in LowerLetters \cup UpperLetters \cup CaselessLetters

\* The lines the player may type at the prompt of line 260.
Inputs ==
    {<<c>> : c \in Chars} \cup {<< >>, <<"m", "a">>, <<"?", "?">>, <<"k", "7">>}

Letters(w) == {w[i] : i \in 1..Len(w)}

-----------------------------------------------------------------------------
(* The score file                                                          *)

ZeroScores == [d \in Difficulties |-> 0]
NoData == [d \in {} |-> 0]

MissingFile == [kind |-> "missing", data |-> NoData]
MalformedFile == [kind |-> "malformed", data |-> NoData]
\* a file holding JSON that is no object (a number, a list)
NonRecordFile == [kind |-> "nonrecord", data |-> NoData]
RecordFile(r) == [kind |-> "record", data |-> r]

\* load_scores giving an empty dict where the file cannot be read
MutLoadScoresEmpty(f) ==
    IF f.kind \in {"missing", "malformed"}
    THEN [isdict |-> TRUE, data |-> NoData]
    ELSE [isdict |-> f.kind = "record", data |-> f.data]

\* lines 101-107: FileNotFoundError and JSONDecodeError give the zero record; any
\* JSON text gives its value, whatever that is.
load_scores(f) ==
    IF f.kind \in {"missing", "malformed"}
    THEN [isdict |-> TRUE, data |-> ZeroScores]
    ELSE [isdict |-> f.kind = "record", data |-> f.data]

\* save_score with >= in place of >
MutSaveScoreNotStrict(f, d, s) ==
    LET loaded == load_scores(f) IN
    IF ~loaded.isdict \/ d \notin DOMAIN loaded.data
    THEN [raised |-> TRUE, ret |-> FALSE, file |-> f, scores |-> loaded]
    ELSE IF s >= loaded.data[d]
         THEN LET updated == [loaded.data EXCEPT ![d] = s] IN
              [raised |-> FALSE, ret |-> TRUE,
               file |-> RecordFile(updated),
               scores |-> [isdict |-> TRUE, data |-> updated]]
         ELSE [raised |-> FALSE, ret |-> FALSE, file |-> f, scores |-> loaded]

\* save_score writing the score whatever is stored
MutSaveScoreAlways(f, d, s) ==
    LET loaded == load_scores(f) IN
    IF ~loaded.isdict \/ d \notin DOMAIN loaded.data
    THEN [raised |-> TRUE, ret |-> FALSE, file |-> f, scores |-> loaded]
    ELSE LET updated == [loaded.data EXCEPT ![d] = s] IN
         [raised |-> FALSE, ret |-> TRUE,
          file |-> RecordFile(updated),
          scores |-> [isdict |-> TRUE, data |-> updated]]

\* lines 109-117.  scores[difficulty] raises TypeError on a value that is no dict and
\* KeyError on a dict without the key; nothing catches either.
save_score(f, d, s) ==
    LET loaded == load_scores(f) IN
    IF ~loaded.isdict \/ d \notin DOMAIN loaded.data
    THEN [raised |-> TRUE, ret |-> FALSE, file |-> f, scores |-> loaded]
    ELSE IF s > loaded.data[d]
         THEN LET updated == [loaded.data EXCEPT ![d] = s] IN
              [raised |-> FALSE, ret |-> TRUE,
               file |-> RecordFile(updated),
               scores |-> [isdict |-> TRUE, data |-> updated]]
         ELSE [raised |-> FALSE, ret |-> FALSE, file |-> f, scores |-> loaded]

-----------------------------------------------------------------------------
(* Scoring                                                                 *)

Max(a, b) == IF a >= b THEN a ELSE b

\* line 206
difficulty_multiplier ==
    [d \in Difficulties |-> CASE d = "easy" -> 1 [] d = "medium" -> 2 [] d = "hard" -> 3]

\* calculate_score without the floor at zero
MutCalculateScoreNoFloor(d, wl, wa) ==
    (wl * 10 - wa * 5) * difficulty_multiplier[d]

\* lines 204-209
calculate_score(d, wl, wa) ==
    LET base_score == wl * 10
        penalty == wa * 5
    IN  Max(0, base_score - penalty) * difficulty_multiplier[d]

-----------------------------------------------------------------------------
(* The round: play_hangman                                                 *)

NoScores == [isdict |-> FALSE, data |-> NoData]

\* the win test with any() in place of all()
MutHasWonAny == \E i \in 1..Len(word) : word[i] \in guessed_letters

\* line 233: all(letter in guessed_letters for letter in word)
HasWon == \A i \in 1..Len(word) : word[i] \in guessed_letters

\* the loss test with > in place of >=
MutHasLostStrict == wrong_attempts > max_wrong

\* line 246
HasLost == wrong_attempts >= max_wrong

\* the hint test without `not hint_used`
MutHintAvailableIgnoresUsed == difficulty_levels[difficulty].hint

\* lines 255 and 268: difficulty_settings['hint'] and not hint_used
HintAvailable == difficulty_levels[difficulty].hint /\ ~hint_used

\* get_hint choosing among all the letters of the word, guessed or not
MutGetHintAnyLetter(w, guessed) == Letters(w)

\* lines 172-177: the letters get_hint may return ("None" stands for None)
get_hint(w, guessed) ==
    LET not_guessed == {i \in 1..Len(w) : w[i] \notin guessed} IN
    IF not_guessed # {} THEN {w[i] : i \in not_guessed} ELSE {"None"}

\* lines 214-226: the state of a round that has just been set up
InitRound ==
    /\ pc = "loop"
    /\ status = "InProgress"
    /\ category \in DOMAIN word_categories
    /\ difficulty \in Difficulties
    /\ word \in word_categories[category]
    /\ guessed_letters = {}
    /\ wrong_attempts = 0
    /\ max_wrong = difficulty_levels[difficulty].max_wrong
    /\ game_over = FALSE
    /\ hint_used = FALSE
    /\ echo = {}
    /\ message = <<"none">>
    /\ score = 0
    /\ new_high = FALSE
    /\ scores = NoScores
    /\ word_length = 0

\* lines 232-243
CheckWin ==
    /\ pc = "loop"
    /\ HasWon
    /\ LET s == calculate_score(difficulty, Len(word), wrong_attempts)
           r == save_score(file, difficulty, s)
       IN  /\ score' = s
           /\ scores' = r.scores
           /\ file' = r.file
           /\ status' = "Won"
           /\ message' = <<"won">>
           /\ IF r.raised
              THEN /\ pc' = "crashed"
                   /\ UNCHANGED <<new_high, game_over>>
              ELSE /\ pc' = "again"
                   /\ new_high' = r.ret
                   /\ game_over' = TRUE
    /\ UNCHANGED <<category, difficulty, word, guessed_letters, wrong_attempts,
                   max_wrong, hint_used, echo, word_length>>

\* a lost round scored and offered to the store like a won one
MutCheckLossSaves ==
    /\ pc = "loop"
    /\ ~HasWon
    /\ HasLost
    /\ LET s == calculate_score(difficulty, Len(word), 0)
           r == save_score(file, difficulty, s)
       IN  /\ score' = s
           /\ scores' = r.scores
           /\ file' = r.file
           /\ new_high' = r.ret
    /\ status' = "Lost"
    /\ message' = <<"lost">>
    /\ game_over' = TRUE
    /\ pc' = "again"
    /\ UNCHANGED <<category, difficulty, word, guessed_letters, wrong_attempts,
                   max_wrong, hint_used, echo, word_length>>

\* lines 245-249
CheckLoss ==
    /\ pc = "loop"
    /\ ~HasWon
    /\ HasLost
    /\ status' = "Lost"
    /\ message' = <<"lost">>
    /\ game_over' = TRUE
    /\ pc' = "again"
    /\ UNCHANGED <<category, difficulty, word, guessed_letters, wrong_attempts,
                   max_wrong, hint_used, echo, score, new_high, scores, file,
                   word_length>>

\* lines 230 and 251-260: display_game_state clears the screen (line 181), the
\* options are shown and the loop waits for a line
Prompt ==
    /\ pc = "loop"
    /\ ~HasWon
    /\ ~HasLost
    /\ pc' = "input"
    /\ echo' = {}
    /\ message' = <<"none">>
    /\ UNCHANGED <<status, round_vars, score, new_high, scores, file, word_length>>

\* '!' marking the round aborted without leaving the loop
MutQuitNoReturn(guess) ==
    /\ status' = "Aborted"
    /\ message' = <<"aborted">>
    /\ pc' = "loop"
    /\ UNCHANGED <<round_vars, score, new_high, scores, file, word_length>>

\* lines 263-266: '!' leaves play_hangman with None, so main_menu's inner loop ends
Quit(guess) ==
    /\ status' = "Aborted"
    /\ message' = <<"aborted">>
    /\ pc' = "menu"
    /\ UNCHANGED <<round_vars, score, new_high, scores, file, word_length>>

\* the hinted letter taken as guessed
MutHintAddsLetter(guess) ==
    /\ \E hint_letter \in get_hint(word, guessed_letters) :
           /\ message' = <<"hint", hint_letter>>
           /\ guessed_letters' = guessed_letters \cup {hint_letter}
    /\ hint_used' = TRUE
    /\ pc' = "loop"
    /\ UNCHANGED <<status, category, difficulty, word, wrong_attempts, max_wrong,
                   game_over, score, new_high, scores, file, word_length>>

\* lines 268-273
Hint(guess) ==
    /\ \E hint_letter \in get_hint(word, guessed_letters) :
           message' = <<"hint", hint_letter>>
    /\ hint_used' = TRUE
    /\ pc' = "loop"
    /\ UNCHANGED <<status, category, difficulty, word, guessed_letters, wrong_attempts,
                   max_wrong, game_over, score, new_high, scores, file, word_length>>

\* lines 276-279
RejectInvalid(guess) ==
    /\ message' = <<"invalid">>
    /\ pc' = "loop"
    /\ UNCHANGED <<status, round_vars, score, new_high, scores, file, word_length>>

\* a repeated letter counted as a wrong attempt
MutRejectRepeatedCounts(guess) ==
    /\ message' = <<"repeated">>
    /\ wrong_attempts' = wrong_attempts + 1
    /\ pc' = "loop"
    /\ UNCHANGED <<status, category, difficulty, word, guessed_letters, max_wrong,
                   game_over, hint_used, score, new_high, scores, file, word_length>>

\* lines 281-284
RejectRepeated(guess) ==
    /\ message' = <<"repeated">>
    /\ pc' = "loop"
    /\ UNCHANGED <<status, round_vars, score, new_high, scores, file, word_length>>

\* every accepted guess counted as a wrong attempt
MutProcessGuessCountsAll(guess) ==
    /\ guessed_letters' = guessed_letters \cup {guess[1]}
    /\ wrong_attempts' = wrong_attempts + 1
    /\ message' = IF guess[1] \in Letters(word) THEN <<"good">> ELSE <<"wrong">>
    /\ pc' = "loop"
    /\ UNCHANGED <<status, category, difficulty, word, max_wrong, game_over, hint_used,
                   score, new_high, scores, file, word_length>>

\* lines 286-295
ProcessGuess(guess) ==
    /\ guessed_letters' = guessed_letters \cup {guess[1]}
    /\ IF guess[1] \in Letters(word)
       THEN /\ message' = <<"good">>
            /\ UNCHANGED wrong_attempts
       ELSE /\ wrong_attempts' = wrong_attempts + 1
            /\ message' = <<"wrong">>
    /\ pc' = "loop"
    /\ UNCHANGED <<status, category, difficulty, word, max_wrong, game_over, hint_used,
                   score, new_high, scores, file, word_length>>

\* lines 260-295: one line typed at the prompt, taken through the if-chain in order
ReadInput(line) ==
    /\ pc = "input"
    /\ echo' = {line}
    /\ LET guess == Lower(line) IN
       IF guess = <<"!">>
       THEN Quit(guess)
       ELSE IF guess = <<"?">> /\ HintAvailable
       THEN Hint(guess)
       ELSE IF ~IsAlpha(guess) \/ Len(guess) # 1
       THEN RejectInvalid(guess)
       ELSE IF guess[1] \in guessed_letters
       THEN RejectRepeated(guess)
       ELSE ProcessGuess(guess)

-----------------------------------------------------------------------------
(* One round, from the state lines 214-226 set up, with a score file that   *)
(* some wins beat and some do not.                                         *)

RoundFiles == {RecordFile([d \in Difficulties |-> 100])}

InitRoundSpec ==
    /\ InitRound
    /\ file \in RoundFiles

NextRound ==
    \/ CheckWin
    \/ CheckLoss
    \/ Prompt
    \/ \E line \in Inputs : ReadInput(line)

SpecRound == InitRoundSpec /\ [][NextRound]_vars

-----------------------------------------------------------------------------
(* calculate_score on its own: any difficulty, word length and number of   *)
(* wrong attempts within the bounds.                                       *)

MaxWordLength == 6
MaxWrongArg == 10

InitScore ==
    /\ pc = "call"
    /\ status = "NoRound"
    /\ category = "fruits"
    /\ difficulty \in Difficulties
    /\ word = << >>
    /\ guessed_letters = {}
    /\ wrong_attempts \in 0..MaxWrongArg
    /\ max_wrong = difficulty_levels[difficulty].max_wrong
    /\ game_over = FALSE
    /\ hint_used = FALSE
    /\ echo = {}
    /\ message = <<"none">>
    /\ score = 0
    /\ new_high = FALSE
    /\ scores = NoScores
    /\ file = MissingFile
    /\ word_length \in 0..MaxWordLength

\* line 235, with the arguments left free
CallCalculateScore ==
    /\ pc = "call"
    /\ score' = calculate_score(difficulty, word_length, wrong_attempts)
    /\ pc' = "returned"
    /\ UNCHANGED <<status, round_vars, echo, message, new_high, scores, file,
                   word_length>>

NextScore == CallCalculateScore

SpecScore == InitScore /\ [][NextScore]_vars

-----------------------------------------------------------------------------
(* The score store on its own: any content of hangman_scores.json, and the *)
(* two callers of load_scores, called in any order with any arguments.     *)

MaxScoreUnits == 5

ScoreValues == {10 * k : k \in 0..MaxScoreUnits}

\* what may be in the file when the process starts: nothing, text that is no JSON,
\* JSON that is no object, or an object with some of the three keys
FileContents ==
    {MissingFile, MalformedFile, NonRecordFile}
        \cup {RecordFile(r) : r \in UNION {[S -> {0, 40}] : S \in SUBSET Difficulties}}

InitStore ==
    /\ pc = "menu"
    /\ status = "NoRound"
    /\ category = "fruits"
    /\ difficulty = "easy"
    /\ word = << >>
    /\ guessed_letters = {}
    /\ wrong_attempts = 0
    /\ max_wrong = difficulty_levels[difficulty].max_wrong
    /\ game_over = FALSE
    /\ hint_used = FALSE
    /\ echo = {}
    /\ message = <<"none">>
    /\ score = 0
    /\ new_high = FALSE
    /\ scores = NoScores
    /\ file \in FileContents
    /\ word_length = 0

\* lines 301-313, reached from line 333: scores.items() raises AttributeError on a
\* value that is no dict
display_high_scores ==
    /\ pc = "menu"
    /\ scores' = load_scores(file)
    /\ message' = <<"high_scores">>
    /\ pc' = IF scores'.isdict THEN "menu" ELSE "crashed"
    /\ UNCHANGED <<status, round_vars, echo, score, new_high, file, word_length>>

\* line 239 with the arguments left free: a round of difficulty d won with score s
CallSaveScore(d, s) ==
    /\ pc = "menu"
    /\ LET r == save_score(file, d, s) IN
           /\ difficulty' = d
           /\ max_wrong' = difficulty_levels[d].max_wrong
           /\ score' = s
           /\ scores' = r.scores
           /\ file' = r.file
           /\ message' = <<"save_score">>
           /\ IF r.raised
              THEN pc' = "crashed" /\ UNCHANGED new_high
              ELSE pc' = "menu" /\ new_high' = r.ret
    /\ UNCHANGED <<status, category, word, guessed_letters, wrong_attempts, game_over,
                   hint_used, echo, word_length>>

NextStore ==
    \/ display_high_scores
    \/ \E d \in Difficulties, s \in ScoreValues : CallSaveScore(d, s)

SpecStore == InitStore /\ [][NextStore]_vars

-----------------------------------------------------------------------------
(* The whole program: main_menu, and any number of rounds one after the    *)
(* other, with a small set of lines to type in a round.                    *)

\* the lines typed in a round: the letters of kiwi, two more lowercase letters, a
\* capital, a letter without case, the two commands and a digit
GameInputs ==
    {<<"k">>, <<"i">>, <<"w">>, <<"x">>, <<"y">>, <<"K">>, <<"U+4E2D">>,
     <<"?">>, <<"!">>, <<"7">>}

\* the lines typed at the menu (line 326) and at "Play again?" (line 299)
MenuChoices == {<<"1">>, <<"2">>, <<"3">>, <<"7">>, << >>}
AgainAnswers == {<<"y">>, <<"Y">>, <<"n">>, << >>}

\* a round set up without resetting hint_used
MutStartRoundKeepsHint(c, d, w) ==
    /\ pc' = "loop"
    /\ status' = "InProgress"
    /\ category' = c
    /\ difficulty' = d
    /\ word' = w
    /\ guessed_letters' = {}
    /\ wrong_attempts' = 0
    /\ max_wrong' = difficulty_levels[d].max_wrong
    /\ game_over' = FALSE
    /\ echo' = {}
    /\ message' = <<"none">>
    /\ score' = 0
    /\ new_high' = FALSE
    /\ scores' = NoScores
    /\ UNCHANGED <<hint_used, file, word_length>>

\* lines 214-226: play_hangman sets up a round of category c, difficulty d, word w
StartRound(c, d, w) ==
    /\ pc' = "loop"
    /\ status' = "InProgress"
    /\ category' = c
    /\ difficulty' = d
    /\ word' = w
    /\ guessed_letters' = {}
    /\ wrong_attempts' = 0
    /\ max_wrong' = difficulty_levels[d].max_wrong
    /\ game_over' = FALSE
    /\ hint_used' = FALSE
    /\ echo' = {}
    /\ message' = <<"none">>
    /\ score' = 0
    /\ new_high' = FALSE
    /\ scores' = NoScores
    /\ UNCHANGED <<file, word_length>>

\* lines 326-340: one line typed at the menu
MenuChoice(choice) ==
    /\ pc = "menu"
    /\ IF choice = <<"1">>
       THEN \E c \in DOMAIN word_categories, d \in Difficulties :
                \E w \in word_categories[c] : StartRound(c, d, w)
       ELSE IF choice = <<"2">>
       THEN display_high_scores
       ELSE IF choice = <<"3">>
       THEN /\ pc' = "exited"
            /\ echo' = {}
            /\ message' = <<"goodbye">>
            /\ UNCHANGED <<status, round_vars, score, new_high, scores, file,
                           word_length>>
       ELSE /\ pc' = "menu"
            /\ echo' = {}
            /\ message' = <<"invalid_choice">>
            /\ UNCHANGED <<status, round_vars, score, new_high, scores, file,
                           word_length>>

\* lines 299 and 329-331: the answer to "Play again?" starts the next round when
\* it begins with y or Y, and leads back to the menu otherwise
PlayAgain(answer) ==
    /\ pc = "again"
    /\ IF Len(answer) >= 1 /\ Lower(answer)[1] = "y"
       THEN \E c \in DOMAIN word_categories, d \in Difficulties :
                \E w \in word_categories[c] : StartRound(c, d, w)
       ELSE /\ pc' = "menu"
            /\ UNCHANGED <<status, round_vars, echo, message, score, new_high, scores,
                           file, word_length>>

InitGame ==
    /\ pc = "menu"
    /\ status = "NoRound"
    /\ category = "fruits"
    /\ difficulty = "easy"
    /\ word = << >>
    /\ guessed_letters = {}
    /\ wrong_attempts = 0
    /\ max_wrong = difficulty_levels[difficulty].max_wrong
    /\ game_over = FALSE
    /\ hint_used = FALSE
    /\ echo = {}
    /\ message = <<"none">>
    /\ score = 0
    /\ new_high = FALSE
    /\ scores = NoScores
    /\ file = MissingFile
    /\ word_length = 0

NextGame ==
    \/ \E choice \in MenuChoices : MenuChoice(choice)
    \/ \E answer \in AgainAnswers : PlayAgain(answer)
    \/ CheckWin
    \/ CheckLoss
    \/ Prompt
    \/ \E line \in GameInputs : ReadInput(line)

SpecGame == InitGame /\ [][NextGame]_vars

-----------------------------------------------------------------------------
(* Properties of the round                                                 *)

\* C1: in every state of a round, wrong_attempts is the number of guessed letters
\* that do not occur in the word.
C1_WrongCountsMisses ==
    wrong_attempts =
        Cardinality({l \in guessed_letters : ~(\E i \in 1..Len(word) : word[i] = l)})

C1_Witness ==
    /\ message = <<"repeated">>
    /\ hint_used
    /\ wrong_attempts = 3
    /\ Cardinality(guessed_letters) = 5

\* the inputs that are no command and no new letter: the empty line, a line of more
\* than one character, a character that is no letter, a letter guessed before
C2_Rejectable(line) ==
    \/ Len(line) = 0
    \/ Len(line) > 1
    \/ Len(line) = 1 /\ line[1] \in OtherChars \ {"?", "!"}
    \/ Len(line) = 1 /\ LowerChar(line[1]) \in guessed_letters

\* C2: a line that is empty, longer than one character, a non-alphabetic character
\* (the commands '!' and '?' apart) or a letter already guessed changes none of
\* guessed_letters, wrong_attempts, hint_used, and the round stays in progress.
C2_RejectedInputChangesNothing ==
    [][(pc = "input" /\ \E line \in echo' : C2_Rejectable(line)) =>
              /\ UNCHANGED <<guessed_letters, wrong_attempts, hint_used>>
              /\ status' = "InProgress"
              /\ pc' = "loop"
              /\ wrong_attempts' < max_wrong'
              /\ \E i \in 1..Len(word') : word'[i] \notin guessed_letters'
              /\ message' \in {<<"invalid">>, <<"repeated">>}]_vars

C2_Witness ==
    /\ echo = {<<"M">>}
    /\ message = <<"repeated">>
    /\ status = "InProgress"
    /\ wrong_attempts = 2
    /\ hint_used

\* C3: the round is Lost only with wrong_attempts = max_wrong (8, 6, 4), no line is
\* read once wrong_attempts has reached max_wrong, and the wrong guess that makes
\* wrong_attempts equal max_wrong is followed at once by Lost.
C3_LostExactlyAtMaxWrong ==
    /\ [](/\ max_wrong = (CASE difficulty = "easy" -> 8
                            [] difficulty = "medium" -> 6
                            [] difficulty = "hard" -> 4)
          /\ (status = "Lost" => wrong_attempts = max_wrong)
          /\ (pc = "input" => wrong_attempts < max_wrong)
          /\ (status = "InProgress" /\ wrong_attempts = max_wrong =>
                pc = "loop" /\ message = <<"wrong">>))
    /\ [][(status = "InProgress" /\ wrong_attempts = max_wrong) => status' = "Lost"]_vars

C3_Witness ==
    /\ status = "Lost"
    /\ word = Mango
    /\ difficulty = "easy"
    /\ wrong_attempts = 8
    /\ guessed_letters \cap Letters(word) = {}

\* C4: as long as every guess is a letter of the word, wrong_attempts is 0 and the
\* round is InProgress until the guesses cover the word, and Won once they do; mango
\* on hard then scores 150.
C4_AllCorrectGuessesWin ==
    guessed_letters \subseteq Letters(word) =>
        /\ wrong_attempts = 0
        /\ status # "Lost"
        /\ (status = "Won" => Letters(word) \subseteq guessed_letters)
        /\ (Letters(word) \subseteq guessed_letters /\ pc # "loop" => status = "Won")
        /\ (pc = "input" => status = "InProgress")
        /\ (status = "Won" /\ word = Mango /\ difficulty = "hard" => score = 150)

C4_Witness ==
    /\ status = "Won"
    /\ word = Mango
    /\ difficulty = "hard"
    /\ guessed_letters = {"m", "a", "n", "g", "o"}
    /\ wrong_attempts = 0
    /\ score = 150

-----------------------------------------------------------------------------
(* Properties of calculate_score                                           *)

\* C5: calculate_score is max(0, word_length*10 - wrong_attempts*5) times 1, 2 or 3
\* for easy, medium, hard, and so never negative.
C5_ScoreFormula ==
    pc = "returned" =>
        LET raw == word_length * 10 - wrong_attempts * 5
            floored == IF raw < 0 THEN 0 ELSE raw
            times == IF difficulty = "easy" THEN 1 ELSE IF difficulty = "medium" THEN 2 ELSE 3
        IN  /\ score = floored * times
            /\ score >= 0
            /\ (difficulty = "easy" /\ word_length = 5 /\ wrong_attempts = 0 => score = 50)
            /\ (difficulty = "medium" /\ word_length = 5 /\ wrong_attempts = 2 => score = 80)
            /\ (difficulty = "hard" /\ word_length = 3 /\ wrong_attempts = 10 => score = 0)

C5_Witness ==
    /\ pc = "returned"
    /\ difficulty = "hard"
    /\ word_length = 3
    /\ wrong_attempts = 10
    /\ score = 0

-----------------------------------------------------------------------------
(* Properties of the score store                                           *)

\* the value load_scores reads for d, where the file gives one
C6_HasStored(f, d) ==
    \/ f.kind \in {"missing", "malformed"}
    \/ f.kind = "record" /\ d \in DOMAIN f.data

C6_Stored(f, d) == IF f.kind = "record" THEN f.data[d] ELSE 0

\* C6: save_score(d, s) writes s as the value of d, and nothing else, exactly when s
\* is strictly greater than the value stored for d, and returns True exactly then;
\* otherwise the file is left as it was and False is returned.
C6_SaveOnlyStrictlyGreater ==
    [][\A d \in Difficulties, s \in ScoreValues :
          (C6_HasStored(file, d) /\ CallSaveScore(d, s)) =>
              LET old == C6_Stored(file, d) IN
              /\ pc' = "menu"
              /\ new_high' = (s > old)
              /\ (s > old =>
                    /\ file'.kind = "record"
                    /\ file'.data[d] = s
                    /\ IF file.kind = "record"
                       THEN /\ DOMAIN file'.data = DOMAIN file.data
                            /\ \A e \in DOMAIN file.data \ {d} :
                                  file'.data[e] = file.data[e]
                       ELSE /\ DOMAIN file'.data = Difficulties
                            /\ \A e \in Difficulties \ {d} : file'.data[e] = 0)
              /\ (s <= old => file' = file)]_vars

C6_Witness ==
    /\ message = <<"save_score">>
    /\ difficulty = "easy"
    /\ score = 30
    /\ new_high = FALSE
    /\ file.kind = "record"
    /\ DOMAIN file.data = Difficulties
    /\ file.data["easy"] = 40

C8_LoadGivesAllThreeKeys ==
    /\ (scores.isdict => DOMAIN scores.data = {"easy", "medium", "hard"})
    /\ (file.kind \in {"missing", "malformed", "record"} => pc # "crashed")

-----------------------------------------------------------------------------
(* Properties of the hint                                                  *)

\* C9: once the hint has been used it stays used, no later step of the round grants
\* a hint, and a later '?' is answered like any invalid line; a granted hint always
\* leaves hint_used true.
C9_AtMostOneHint ==
    /\ [](message[1] = "hint" => hint_used)
    /\ [][hint_used =>
            /\ hint_used'
            /\ message'[1] # "hint"
            /\ (pc = "input" /\ echo' = {<<"?">>} =>
                  /\ message' = <<"invalid">>
                  /\ UNCHANGED <<guessed_letters, wrong_attempts>>)]_vars

C9_Witness ==
    /\ hint_used
    /\ echo = {<<"?">>}
    /\ message = <<"invalid">>
    /\ guessed_letters # {}
    /\ wrong_attempts > 0

\* C10: a '?' is granted exactly when the level is easy or medium and the hint has
\* not been used; on hard, or once used, it is refused and guessed_letters,
\* wrong_attempts and hint_used stay as they were.
C10_HintOnlyWhenAllowed ==
    /\ [](message[1] = "hint" => difficulty \in {"easy", "medium"} /\ echo = {<<"?">>})
    /\ [][(pc = "input" /\ echo' = {<<"?">>}) =>
            IF difficulty \in {"easy", "medium"} /\ ~hint_used
            THEN message'[1] = "hint" /\ hint_used'
            ELSE /\ message' = <<"invalid">>
                 /\ UNCHANGED <<guessed_letters, wrong_attempts, hint_used>>
                 /\ pc' = "loop"
                 /\ status' = "InProgress"]_vars

C10_Witness ==
    /\ difficulty = "hard"
    /\ echo = {<<"?">>}
    /\ message = <<"invalid">>
    /\ ~hint_used
    /\ guessed_letters # {}

-----------------------------------------------------------------------------
(* get_hint on its own, next to the round: any word of the list and any    *)
(* set of letters as its arguments.                                        *)

InitGetHint ==
    /\ pc = "call"
    /\ status = "NoRound"
    /\ category \in DOMAIN word_categories
    /\ difficulty = "easy"
    /\ word \in word_categories[category]
    /\ guessed_letters \in SUBSET (Letters(word) \cup {"x"})
    /\ wrong_attempts = 0
    /\ max_wrong = difficulty_levels[difficulty].max_wrong
    /\ game_over = FALSE
    /\ hint_used = FALSE
    /\ echo = {}
    /\ message = <<"none">>
    /\ score = 0
    /\ new_high = FALSE
    /\ scores = NoScores
    /\ file = MissingFile
    /\ word_length = 0

\* line 269 with the arguments left free
CallGetHint ==
    /\ pc = "call"
    /\ \E hint_letter \in get_hint(word, guessed_letters) :
           message' = <<"hint", hint_letter>>
    /\ pc' = "returned"
    /\ UNCHANGED <<status, round_vars, echo, score, new_high, scores, file, word_length>>

InitHint == InitRoundSpec \/ InitGetHint

NextHint == NextRound \/ CallGetHint

SpecHint == InitHint /\ [][NextHint]_vars

-----------------------------------------------------------------------------
(* Properties of get_hint                                                  *)

\* C11: get_hint gives None exactly when every letter of the word is guessed, and
\* otherwise a letter of the word that is not guessed; in a round the hint shown is
\* such a letter and hint_used is true once it is shown.
C11_HintIsUnguessedLetterOfWord ==
    /\ (pc = "returned" =>
          /\ (message[2] = "None" <=> \A i \in 1..Len(word) : word[i] \in guessed_letters)
          /\ (message[2] # "None" =>
                /\ \E i \in 1..Len(word) : word[i] = message[2]
                /\ message[2] \notin guessed_letters))
    /\ (status = "InProgress" /\ message[1] = "hint" =>
          /\ hint_used
          /\ \E i \in 1..Len(word) : word[i] = message[2]
          /\ message[2] \notin guessed_letters)

C11_Witness ==
    /\ status = "InProgress"
    /\ word = Kiwi
    /\ guessed_letters = {"k", "w", "x"}
    /\ message = <<"hint", "i">>
    /\ hint_used

-----------------------------------------------------------------------------
(* Properties of the rounds of one process                                 *)

\* C12: the score file changes only in the step that ends a round as Won; a round
\* that is Lost or Aborted has computed no score and has left the file as it was.
C12_ScoreOnlyOnWin ==
    /\ [](status \in {"Lost", "Aborted"} => score = 0 /\ new_high = FALSE)
    /\ [][/\ (file' # file => status = "InProgress" /\ status' = "Won")
          /\ (status' \in {"Lost", "Aborted"} => file' = file)]_vars

C12_Witness ==
    /\ status = "Lost"
    /\ difficulty = "medium"
    /\ file.kind = "record"
    /\ file.data["medium"] = 80

\* C13: once a round is Won, Lost or Aborted, the process is at "Play again?", at
\* the menu or gone, and until the next round is set up its status, word,
\* guessed_letters, wrong_attempts and hint_used stay as they are and no line is
\* read as a guess.
C13_TerminalStatesAreFinal ==
    /\ [](status \in {"Won", "Lost", "Aborted"} =>
            pc \in {"again", "menu", "exited", "crashed"})
    /\ [][(status \in {"Won", "Lost", "Aborted"} /\ pc' # "loop") =>
            /\ UNCHANGED <<status, word, guessed_letters, wrong_attempts, hint_used>>
            /\ pc' \in {"again", "menu", "exited", "crashed"}
            /\ message'[1] \notin {"hint", "good", "wrong", "invalid", "repeated"}]_vars

C13_Witness ==
    /\ status = "Aborted"
    /\ pc = "menu"
    /\ message = <<"high_scores">>
    /\ guessed_letters = {"k", "x"}
    /\ hint_used

-----------------------------------------------------------------------------
(* Further properties of one round                                         *)

\* C14: no state of a round has every letter of the word guessed and wrong_attempts
\* at or above max_wrong at once; and whenever every letter is guessed at the top of
\* the loop, the round is reported Won.
C14_NeverWonAndLostAtOnce ==
    /\ [](~((\A i \in 1..Len(word) : word[i] \in guessed_letters)
              /\ wrong_attempts >= max_wrong))
    /\ [][(pc = "loop" /\ \A i \in 1..Len(word) : word[i] \in guessed_letters) =>
            status' = "Won"]_vars

C14_Witness ==
    /\ status = "Won"
    /\ difficulty = "hard"
    /\ word = Kiwi
    /\ wrong_attempts = 3

\* C15: wrong_attempts never exceeds the limit of the level, 8 on easy, 6 on medium
\* and 4 on hard, and a line is read only while it is below the limit.
C15_WrongAttemptsWithinLimit ==
    /\ wrong_attempts <= max_wrong
    /\ wrong_attempts <= (IF difficulty = "easy" THEN 8
                          ELSE IF difficulty = "medium" THEN 6 ELSE 4)
    /\ (pc = "input" => wrong_attempts + 1 <= max_wrong)

C15_Witness ==
    /\ difficulty = "easy"
    /\ wrong_attempts = 8
    /\ status = "Lost"
    /\ Cardinality(guessed_letters) = 10

\* C19: a granted hint sets hint_used and shows a letter, and changes nothing else
\* of the round: the letter shown is still not in guessed_letters, wrong_attempts is
\* as before, and the round goes on to the next prompt.
C19_HintChangesOnlyHintUsed ==
    /\ [](message[1] = "hint" /\ status = "InProgress" =>
            /\ message[2] \notin guessed_letters
            /\ pc = "loop"
            /\ \E i \in 1..Len(word) : word[i] \notin guessed_letters)
    /\ [][message'[1] = "hint" =>
            /\ UNCHANGED <<status, word, difficulty, guessed_letters, wrong_attempts,
                           max_wrong, game_over, score, file>>
            /\ hint_used']_vars

C19_Witness ==
    /\ message = <<"hint", "o">>
    /\ word = Mango
    /\ guessed_letters = {"m", "x"}
    /\ wrong_attempts = 1
    /\ status = "InProgress"

-----------------------------------------------------------------------------
(* Further properties of the rounds of one process                         *)

\* C16: during a round guessed_letters only grows: every step other than the start
\* of a new round leaves it equal to or a superset of what it was, and a step that
\* changes it adds exactly one new single lowercase letter.
C16_GuessedGrowsByOneLowercaseLetter ==
    [][(pc \in {"menu", "again"} /\ pc' = "loop") \/
       /\ guessed_letters \subseteq guessed_letters'
       /\ (guessed_letters' # guessed_letters =>
             \E c \in LowerLetters :
                /\ c \notin guessed_letters
                /\ guessed_letters' = guessed_letters \cup {c})]_vars

\* C17: every round that starts, after whatever rounds before it, starts with
\* guessed_letters empty, wrong_attempts 0 and hint_used false, so that on a level
\* with hints the hint is available again.
C17_NewRoundStartsFresh ==
    [][(pc \in {"menu", "again"} /\ pc' = "loop") =>
          /\ guessed_letters' = {}
          /\ wrong_attempts' = 0
          /\ hint_used' = FALSE
          /\ status' = "InProgress"
          /\ (difficulty_levels[difficulty'].hint => HintAvailable')]_vars

C17_Witness ==
    /\ message[1] = "hint"
    /\ guessed_letters = {}
    /\ status = "InProgress"
    /\ file.kind = "record"

\* C20: over the rounds of one process the stored best score of no difficulty ever
\* decreases, and a step of a round changes the stored value of no difficulty but
\* the one being played.
C20_StoredBestNeverDecreases ==
    [][\A d \in Difficulties :
          /\ C6_Stored(file', d) >= C6_Stored(file, d)
          /\ (d # difficulty => C6_Stored(file', d) = C6_Stored(file, d))]_vars

C20_Witness ==
    /\ status = "Won"
    /\ new_high = FALSE
    /\ file.kind = "record"
    /\ score + 1 <= file.data[difficulty]
    /\ \E d \in Difficulties \ {difficulty} : file.data[d] >= 1

-----------------------------------------------------------------------------
(* Termination of a round.  The steps of the program itself (the checks at  *)
(* the top of the loop and the prompt) are taken whenever they can be; the  *)
(* player is assumed to type, again and again while a line is awaited, a    *)
(* letter not guessed before.                                              *)

\* lines 260-295 on a single lowercase letter that is not in guessed_letters
FreshGuess == \E c \in LowerLetters \ guessed_letters : ReadInput(<<c>>)

SpecLive ==
    /\ InitRoundSpec
    /\ [][NextRound]_vars
    /\ WF_vars(CheckWin)
    /\ WF_vars(CheckLoss)
    /\ WF_vars(Prompt)
    /\ SF_vars(FreshGuess)

\* C18: a round accepts at most (number of distinct letters of the word) + max_wrong
\* - 1 guesses, and a player who keeps typing letters not guessed before sees the
\* round end: Won or Lost, or Aborted by the player's own "!".
C18_RoundTerminates ==
    /\ [](Cardinality(guessed_letters) + 1 <= Cardinality(Letters(word)) + max_wrong)
    /\ [](Cardinality(guessed_letters) =
            Cardinality(guessed_letters \cap Letters(word)) + wrong_attempts)
    /\ <>(status \in {"Won", "Lost", "Aborted"})
    /\ [][status' = "Aborted" => echo' = {<<"!">>}]_vars

C18_Witness ==
    /\ status = "Lost"
    /\ word = Mango
    /\ difficulty = "easy"
    /\ Cardinality(guessed_letters) = 12

====
